---------------------------- MODULE Spec2Model ----------------------------
(***************************************************************************)
(* A model of package-automator: the version comparator, the registry      *)
(* client, the manifest updater, the reporter and the main loop.           *)
(*                                                                         *)
(* Strings are sequences of tokens.  A token is a record [c, v]: c is the  *)
(* text class of the token and v the numbers it carries.  "M.m.p" is the   *)
(* text of three dot-separated numbers, "M.m" of two; every other token is *)
(* a single piece of text ("^", "~", ">", "=", "<", "v", " ", "-beta",     *)
(* "x").  JavaScript's null is the one-token sequence NULL.                *)
(***************************************************************************)
EXTENDS Integers, Sequences, FiniteSets, TLC

VARIABLES
    \* -- the comparator on one pair of version strings
    cmpPc,              \* "start" | "compared" | "goChecked"
    cmpInstalled,       \* the installed version string
    cmpLatest,          \* the latest version string (or NULL)
    comparisonResults,  \* result of comparator.compareVersions
    autoUpdatePackages, \* result of comparator.getAutoUpdatePackages
    versionComparison,  \* result of goAnalyzer.checkGoVersionUpdate
    \* -- analyzer.fetchLatestVersions on one list of names
    fetchPc,            \* "loop" | "await" | "delay" | "done"
    packageNames,       \* the requested names
    fetchI,             \* the loop variable i
    batch,              \* the current batch
    promises,           \* name -> the promise of its fetchPackageInfo call
    latestVersions,     \* the result map
    \* -- updater.updatePackages called on one manifest
    updCalls,           \* number of calls made
    updFile,            \* content of the package.json file
    updHasLock,         \* repository.packageLockPath is set
    packagesToUpdate,   \* the approved map, name -> version
    updateResults,      \* what the last call returned
    updWrites,          \* number of fs.writeFile calls on the manifest
    updInstall,         \* `npm install` in the last call:
                        \* "notRun" | "ok" | "failed"
    updGoMod,           \* content of the go.mod file
    goUpdateResults,    \* what the last goUpdater.updateGoVersion returned
    updTidy,            \* `go mod tidy` in the last call:
                        \* "notRun" | "ok" | "failed"
    \* -- one run of main
    runPc,              \* "scan" | "loop" | "npmFetch" | "npmUpdate" |
                        \* "writeReport" | "document" | "exit"
    repositories,       \* what scanner.findRepositories finds
    repoIdx,            \* position of the for-of loop in repositories
    files,              \* repository path -> content of its manifest file
    files0,             \* files as they were when the run started
    locks0,             \* locks as they were when the run started
    fetched,            \* repository path -> what fetchLatestVersions
                        \* returned for it in this run
    locks,              \* repository path -> content of its lock file
    writes,             \* the files written by fs.writeFile, in order
    repositoryReports,  \* main's repositoryReports array
    cur,                \* locals of the running processNpmRepository call
    consolidatedReport, \* result of reporter.generateConsolidatedReport
    exitCode,           \* the process's exit code, -1 while it runs
    runs,               \* number of runs of main started
    updatedBefore       \* the repositories that the run before this one
                        \* reported with autoUpdated = true

cmpVars == <<cmpPc, cmpInstalled, cmpLatest, comparisonResults,
             autoUpdatePackages, versionComparison>>

fetchVars == <<fetchPc, packageNames, fetchI, batch, promises,
               latestVersions>>

updVars == <<updCalls, updFile, updHasLock, packagesToUpdate, updateResults,
             updWrites, updInstall, updGoMod, goUpdateResults, updTidy>>

runVars == <<runPc, repositories, repoIdx, files, files0, locks, locks0,
             fetched, writes, repositoryReports, cur, consolidatedReport,
             exitCode, runs, updatedBefore>>

vars == <<cmpVars, fetchVars, updVars, runVars>>

-----------------------------------------------------------------------------
(* Bounds *)

\* version components of the enumerated inputs range over 0..MaxComp
MaxComp == 2

\* fetchLatestVersions is given at most MaxNames names
MaxNames == 12

\* updatePackages is called at most MaxCalls times on one manifest
MaxCalls == 2

\* the scanner finds at most MaxRepos repositories
MaxRepos == 2

\* main is run at most MaxRuns times over the same repositories
MaxRuns == 2

-----------------------------------------------------------------------------
(* Strings *)

T(c) == [c |-> c, v |-> <<0, 0, 0>>]
V3(M, m, p) == [c |-> "M.m.p", v |-> <<M, m, p>>]
V2(M, m) == [c |-> "M.m", v |-> <<M, m, 0>>]

NULL == <<T("null")>>
EmptyString == <<>>
EmptyMap == <<>>

\* only null taken as falsy
TruthyUnlessNull(s) == s # NULL

\* JavaScript truthiness of a string-or-null value: `!latest` is true of
\* null, undefined and the empty string
Truthy(s) == s # NULL /\ s # EmptyString

\* obj[key], undefined (modelled as NULL) when the key is absent
Get(obj, key) == IF key \in DOMAIN obj THEN obj[key] ELSE NULL

\* property names every parsed JSON object inherits from Object.prototype
ObjectPrototype == {"constructor", "toString", "valueOf"}

\* obj[key] as JavaScript evaluates it: the object's own entry, else the
\* function inherited under that name, else undefined
GetProperty(obj, key) ==
    IF key \in DOMAIN obj THEN obj[key]
    ELSE IF key \in ObjectPrototype THEN <<T("function")>> ELSE NULL

\* Object.assign(target, source), and a run of target[k] = source[k]
ObjectAssign(target, source) ==
    [k \in DOMAIN target \cup DOMAIN source |->
        IF k \in DOMAIN source THEN source[k] ELSE target[k]]

Range(seq) == {seq[k] : k \in 1..Len(seq)}

RECURSIVE TrimLeft(_)
TrimLeft(s) ==
    IF s # <<>> /\ Head(s).c = " " THEN TrimLeft(Tail(s)) ELSE s

RECURSIVE TrimRight(_)
TrimRight(s) ==
    IF s # <<>> /\ s[Len(s)].c = " "
    THEN TrimRight(SubSeq(s, 1, Len(s) - 1)) ELSE s

Trim(s) == TrimRight(TrimLeft(s))

\* semver.valid / semver.parse (strict): after trimming, an optional "v",
\* the three numbers, an optional prerelease tag.  The result is the parsed
\* triple, or <<>> when the string is not a semantic version.
SemverParse(s) ==
    IF s = NULL THEN <<>>
    ELSE LET t == Trim(s)
             u == IF t # <<>> /\ Head(t).c = "v" THEN Tail(t) ELSE t
         IN  IF Len(u) = 1 /\ u[1].c = "M.m.p" THEN u[1].v
             ELSE IF Len(u) = 2 /\ u[1].c = "M.m.p" /\ u[2].c = "-beta"
                  THEN u[1].v
                  ELSE <<>>

SemverValid(s) == SemverParse(s) # <<>>

\* semver.coerce: the first run of one to three dot-separated numbers in
\* the string, missing components read as 0; <<>> (null) when there is none
RECURSIVE SemverCoerce(_)
SemverCoerce(s) ==
    IF s = NULL \/ s = <<>> THEN <<>>
    ELSE IF Head(s).c \in {"M.m.p", "M.m"} THEN Head(s).v
         ELSE SemverCoerce(Tail(s))

Major(t) == t[1]
Minor(t) == t[2]
Patch(t) == t[3]

-----------------------------------------------------------------------------
(* comparator *)

GetUpdateType(installed, latest) ==
    IF ~SemverValid(installed) \/ ~SemverValid(latest) THEN "unknown"
    ELSE LET i == SemverParse(installed)
             l == SemverParse(latest)
         IN  IF Major(l) > Major(i) THEN "major"
             ELSE IF Minor(l) > Minor(i) THEN "minor"
             ELSE IF Patch(l) > Patch(i) THEN "patch"
             ELSE "current"

\* the auto-update flag also set for a minor update
CompareOneAutoMinor(installed, latest) ==
    IF ~Truthy(latest)
    THEN [installed |-> installed, latest |-> NULL,
          updateType |-> "unknown", canAutoUpdate |-> FALSE]
    ELSE IF installed = latest
    THEN [installed |-> installed, latest |-> latest,
          updateType |-> "current", canAutoUpdate |-> FALSE]
    ELSE LET updateType == GetUpdateType(installed, latest)
         IN  [installed |-> installed, latest |-> latest,
              updateType |-> updateType,
              canAutoUpdate |-> (updateType \in {"patch", "minor"})]

CompareOne(installed, latest) ==
    IF ~Truthy(latest)
    THEN [installed |-> installed, latest |-> NULL,
          updateType |-> "unknown", canAutoUpdate |-> FALSE]
    ELSE IF installed = latest
    THEN [installed |-> installed, latest |-> latest,
          updateType |-> "current", canAutoUpdate |-> FALSE]
    ELSE LET updateType == GetUpdateType(installed, latest)
         IN  [installed |-> installed, latest |-> latest,
              updateType |-> updateType,
              canAutoUpdate |-> (updateType = "patch")]

CompareVersions(installedMap, latestMap) ==
    [packageName \in DOMAIN installedMap |->
        CompareOne(installedMap[packageName], Get(latestMap, packageName))]

\* every outdated package approved, whatever its update type
GetAutoUpdatePackagesOutdated(results) ==
    [packageName \in {n \in DOMAIN results :
                        results[n].updateType \in {"patch", "minor", "major"}}
        |-> results[packageName].latest]

GetAutoUpdatePackages(results) ==
    [packageName \in {n \in DOMAIN results : results[n].canAutoUpdate} |->
        results[packageName].latest]

GetManualUpdatePackages(results) ==
    [packageName \in {n \in DOMAIN results :
                        results[n].updateType \in {"minor", "major"}} |->
        [installed |-> results[packageName].installed,
         latest |-> results[packageName].latest,
         updateType |-> results[packageName].updateType]]

-----------------------------------------------------------------------------
(* goAnalyzer *)

CheckGoVersionUpdate(currentVersion, latestVersion) ==
    LET current == SemverCoerce(currentVersion)
        latest == SemverCoerce(latestVersion)
    IN  IF current = <<>> \/ latest = <<>>
        THEN [updateType |-> "unknown", canAutoUpdate |-> FALSE]
        ELSE IF current = latest
        THEN [updateType |-> "current", canAutoUpdate |-> FALSE]
        ELSE IF Major(current) < Major(latest)
        THEN [updateType |-> "major", canAutoUpdate |-> FALSE]
        ELSE IF Minor(current) < Minor(latest)
        THEN [updateType |-> "minor", canAutoUpdate |-> FALSE]
        ELSE IF Patch(current) < Patch(latest)
        THEN [updateType |-> "patch", canAutoUpdate |-> TRUE]
        ELSE [updateType |-> "unknown", canAutoUpdate |-> FALSE]

-----------------------------------------------------------------------------
(* updater *)

Sections == <<"dependencies", "devDependencies", "optionalDependencies">>

\* `^${newVersion}`
Caret(version) == <<T("^")>> \o version

\* one of the three blocks of updatePackageJson: acc.packageJson and
\* acc.updatedDependencies after the block for `section`.  The block writes
\* the entry first and reads `from` out of the entry afterwards.
UpdateSection(acc, section, toUpdate) ==
    IF section \notin DOMAIN acc.packageJson THEN acc
    ELSE LET old == acc.packageJson[section]
             hit == {n \in DOMAIN toUpdate : Truthy(GetProperty(old, n))}
             new == ObjectAssign(old, [n \in hit |-> Caret(toUpdate[n])])
         IN  [packageJson |-> [acc.packageJson EXCEPT ![section] = new],
              updatedDependencies |->
                 ObjectAssign(acc.updatedDependencies,
                    [n \in hit |-> [type |-> section,
                                    from |-> new[n],
                                    to |-> Caret(toUpdate[n])]])]

\* only the dependencies section rewritten
UpdatePackageJsonDirectOnly(packageJson, toUpdate) ==
    UpdateSection([packageJson |-> packageJson,
                   updatedDependencies |-> EmptyMap],
                  Sections[1], toUpdate)

\* the parsed manifest and the change record updatePackageJson builds
\* between reading and writing the file
UpdatePackageJson(packageJson, toUpdate) ==
    UpdateSection(
        UpdateSection(
            UpdateSection([packageJson |-> packageJson,
                           updatedDependencies |-> EmptyMap],
                          Sections[1], toUpdate),
            Sections[2], toUpdate),
        Sections[3], toUpdate)

\* a file that does not parse as JSON
MALFORMED == [malformed |-> TRUE]

\* the lock taken as regenerated whenever the repository has one
PackageLockUpdatedAssumed(hasLock, install) == hasLock

\* packageLockUpdated: false unless packageLockPath is set, else what
\* updatePackageLock returns
PackageLockUpdated(hasLock, install) == hasLock /\ install

\* updater.updatePackages: the value it returns and the file it leaves.
\* io is what the file system does ("ok", "readFails", "writeFails") and
\* install whether `npm install` succeeds.
UpdatePackages(path, file, hasLock, toUpdate, io, install) ==
    IF DOMAIN toUpdate = {}
    THEN [file |-> file, wrote |-> FALSE,
          result |-> [repository |-> path, updated |-> FALSE,
                      message |-> "No packages to update",
                      updatedDependencies |-> EmptyMap]]
    ELSE IF io # "ok" \/ file = MALFORMED
    THEN [file |-> file, wrote |-> FALSE,
          result |-> [repository |-> path, updated |-> FALSE,
                      error |-> "Failed to update package.json",
                      updatedDependencies |-> EmptyMap]]
    ELSE LET r == UpdatePackageJson(file, toUpdate)
         IN  [file |-> r.packageJson, wrote |-> TRUE,
              result |-> [repository |-> path, updated |-> TRUE,
                          packageLockUpdated |->
                             PackageLockUpdated(hasLock, install),
                          updatedDependencies |-> r.updatedDependencies]]

\* a latest version with a patch component above 0
LatestGoVersionWithPatch == <<V3(1, 22, 1)>>

\* goAnalyzer.getLatestGoVersion
LatestGoVersion == <<V3(1, 22, 0)>>

\* goUpdater.updateGoVersion: the value it returns and the file it leaves.
\* io is what the file system does, tidy whether `go mod tidy` succeeds.
UpdateGoVersion(file, newVersion, io, tidy) ==
    IF io # "ok" \/ file = MALFORMED
    THEN [file |-> file, wrote |-> FALSE,
          result |-> [updated |-> FALSE, goModUpdated |-> FALSE,
                      goModTidied |-> FALSE,
                      error |-> "Failed to update Go version"]]
    ELSE [file |-> [file EXCEPT !.go = newVersion], wrote |-> TRUE,
          result |-> [updated |-> TRUE, goModUpdated |-> TRUE,
                      goModTidied |-> tidy, error |-> "null"]]

-----------------------------------------------------------------------------
(* analyzer: the manifest and the lock *)

RangeOperators == {"^", "~", ">", "=", "<"}

\* the declared range taken as it is
StripRangeKeep(s) == s

\* range.replace(/[\^~>=<]/g, '')
RECURSIVE StripRange(_)
StripRange(s) ==
    IF s = <<>> THEN <<>>
    ELSE IF Head(s).c \in RangeOperators THEN StripRange(Tail(s))
         ELSE <<Head(s)>> \o StripRange(Tail(s))

\* the section's entries assigned only where the map has no entry yet
ExtractSectionKeep(dependencies, packageJson, section) ==
    IF section \in DOMAIN packageJson
    THEN ObjectAssign(packageJson[section], dependencies)
    ELSE dependencies

ExtractSection(dependencies, packageJson, section) ==
    IF section \in DOMAIN packageJson
    THEN ObjectAssign(dependencies, packageJson[section])
    ELSE dependencies

ExtractDependencies(packageJson) ==
    ExtractSection(
        ExtractSection(
            ExtractSection(EmptyMap, packageJson, Sections[1]),
            packageJson, Sections[2]),
        packageJson, Sections[3])

\* no lock: readPackageLock returned null, or was not called
NoLock == [absent |-> TRUE]
\* a lock file that cannot be read or parsed
LockUnreadable == [unreadable |-> TRUE]

\* analyzer.readPackageLock, called only when packageLockPath is set
ReadPackageLock(lockFile) ==
    IF lockFile = LockUnreadable THEN NoLock ELSE lockFile

\* `node_modules/${name}`
NodeModules(name) == <<"node_modules", name>>

\* the version a lock section pins for a key, or the stripped range
PinnedOrStripped(section, key, range) ==
    IF Truthy(Get(section, key)) THEN section[key] ELSE StripRange(range)

GetInstalledVersions(packageLock, dependencies) ==
    IF packageLock = NoLock
    THEN [name \in DOMAIN dependencies |-> StripRange(dependencies[name])]
    ELSE IF "dependencies" \in DOMAIN packageLock
    THEN [name \in DOMAIN dependencies |->
            PinnedOrStripped(packageLock.dependencies, name,
                             dependencies[name])]
    ELSE IF "packages" \in DOMAIN packageLock
    THEN [name \in DOMAIN dependencies |->
            PinnedOrStripped(packageLock.packages, NodeModules(name),
                             dependencies[name])]
    ELSE EmptyMap

-----------------------------------------------------------------------------
(* reporter *)

\* path.basename
Basename(path) ==
    CASE path = "/w/app" -> "app"
      [] path = "/w/lib" -> "lib"
      [] path = "/w/svc" -> "svc"
      [] path = "/v/svc" -> "svc"
      [] OTHER -> path

\* updateResults = null
NoUpdateResults == [none |-> TRUE]

\* every result that is neither current nor auto-updatable taken as manual
IsManualUpdateAny(result) == TRUE

\* result.updateType === 'minor' || result.updateType === 'major'
IsManualUpdate(result) == result.updateType \in {"minor", "major"}

\* the report marked as updated whenever the update step was called
AutoUpdatedWhenCalled(updResults) == updResults # NoUpdateResults

\* updateResults ? updateResults.updated : false
AutoUpdated(updResults) ==
    IF updResults = NoUpdateResults THEN FALSE ELSE updResults.updated

GenerateRepositoryReport(repository, results, updResults) ==
    LET currentNames == {n \in DOMAIN results :
                            results[n].updateType = "current"}
        autoNames == {n \in DOMAIN results \ currentNames :
                            results[n].canAutoUpdate}
        manualNames == {n \in (DOMAIN results \ currentNames) \ autoNames :
                            IsManualUpdate(results[n])}
        entry(n) == [from |-> results[n].installed,
                     to |-> results[n].latest,
                     updateType |-> results[n].updateType]
        repoReport ==
            [path |-> repository.path,
             name |-> Basename(repository.path),
             type |-> repository.type,
             packageCount |-> Cardinality(DOMAIN results),
             autoUpdateCount |-> Cardinality(autoNames),
             manualUpdateCount |-> Cardinality(manualNames),
             currentCount |-> Cardinality(currentNames),
             autoUpdated |-> AutoUpdated(updResults),
             autoUpdatePackages |-> [n \in autoNames |-> entry(n)],
             manualUpdatePackages |-> [n \in manualNames |-> entry(n)],
             currentPackages |->
                [n \in currentNames |-> [version |-> results[n].installed]]]
    IN  IF updResults # NoUpdateResults /\ updResults.updated
        THEN IF repository.type = "npm"
             THEN [f \in DOMAIN repoReport \cup {"updateResults"} |->
                     IF f = "updateResults"
                     THEN [packageLockUpdated |->
                              updResults.packageLockUpdated,
                           updatedDependencies |->
                              updResults.updatedDependencies]
                     ELSE repoReport[f]]
             ELSE [f \in DOMAIN repoReport \cup {"updateResults"} |->
                     IF f = "updateResults"
                     THEN [goModUpdated |-> updResults.goModUpdated,
                           goModTidied |-> updResults.goModTidied]
                     ELSE repoReport[f]]
        ELSE repoReport

\* the entry main's catch block pushes
ErrorEntry(repository, message) ==
    [path |-> repository.path, name |-> Basename(repository.path),
     error |-> message]

\* JavaScript's NaN, the value of number + undefined
NaN == -1

\* report[field] as an operand of +=: undefined makes the sum NaN
NumberField(report, field) ==
    IF field \in DOMAIN report THEN report[field] ELSE NaN

JsAdd(a, b) == IF a = NaN \/ b = NaN THEN NaN ELSE a + b

RECURSIVE SumField(_, _)
SumField(reports, field) ==
    IF reports = <<>> THEN 0
    ELSE JsAdd(SumField(SubSeq(reports, 1, Len(reports) - 1), field),
               NumberField(reports[Len(reports)], field))

GenerateConsolidatedReport(reports) ==
    [summary |->
        [repositoryCount |-> Len(reports),
         totalPackages |-> SumField(reports, "packageCount"),
         totalAutoUpdated |-> SumField(reports, "autoUpdateCount"),
         totalManualUpdateNeeded |-> SumField(reports, "manualUpdateCount"),
         totalCurrent |-> SumField(reports, "currentCount")],
     repositories |-> reports]

-----------------------------------------------------------------------------
(* updatePackages called repeatedly on one manifest *)

Range1 == {<<T("^"), V3(0, 21, 1)>>, <<T("~"), V3(0, 21, 1)>>,
           <<V3(0, 21, 4)>>, <<>>}

SectionChoices ==
    {[n \in {"axios"} |-> r] : r \in Range1}
    \cup {EmptyMap,
          [n \in {"axios", "react"} |->
              IF n = "axios" THEN <<T("^"), V3(0, 21, 1)>>
              ELSE <<T("^"), V3(17, 0, 2)>>]}

DevChoices ==
    {EmptyMap, [n \in {"axios"} |-> <<T("~"), V3(0, 21, 1)>>],
     [n \in {"react"} |-> <<T(">"), T("="), V3(17, 0, 2)>>]}

ManifestChoices ==
    {[name |-> <<T("x")>>, dependencies |-> d] : d \in SectionChoices}
    \cup {[name |-> <<T("x")>>, dependencies |-> d, devDependencies |-> e,
           optionalDependencies |-> o] :
             d \in SectionChoices, e \in DevChoices, o \in DevChoices}
    \cup {[name |-> <<T("x")>>, devDependencies |-> e] : e \in DevChoices}
    \cup {[name |-> <<T("x")>>,
           dependencies |-> [n \in {"axios"} |-> <<T("^"), V3(0, 21, 1)>>],
           devDependencies |->
              [n \in {"constructor"} |-> <<T("^"), V3(1, 0, 0)>>]]}

ApprovedChoices ==
    {EmptyMap,
     [n \in {"axios"} |-> <<V3(0, 21, 4)>>],
     [n \in {"react"} |-> <<V3(17, 0, 3)>>],
     [n \in {"constructor"} |-> <<V3(1, 0, 1)>>],
     [n \in {"axios", "react"} |->
         IF n = "axios" THEN <<V3(0, 21, 4)>> ELSE <<V3(17, 0, 3)>>]}

NoUpdate == [repository |-> "/w/app", updated |-> FALSE,
             message |-> "not called", updatedDependencies |-> EmptyMap]

GoModChoices ==
    {[module |-> <<T("x")>>, go |-> <<V2(1, 21)>>],
     [module |-> <<T("x")>>, go |-> <<V3(1, 21, 5)>>],
     MALFORMED}

NoGoUpdate == [updated |-> FALSE, goModUpdated |-> FALSE,
               goModTidied |-> FALSE, error |-> "not called"]

UpdIdle ==
    /\ updCalls = 0
    /\ updFile = MALFORMED
    /\ updHasLock = FALSE
    /\ packagesToUpdate = EmptyMap
    /\ updateResults = NoUpdate
    /\ updWrites = 0
    /\ updInstall = "notRun"
    /\ updGoMod = MALFORMED
    /\ goUpdateResults = NoGoUpdate
    /\ updTidy = "notRun"

UpdInit ==
    /\ updCalls = 0
    /\ updFile \in ManifestChoices
    /\ updHasLock \in BOOLEAN
    /\ packagesToUpdate \in ApprovedChoices
    /\ updateResults = NoUpdate
    /\ updWrites = 0
    /\ updInstall = "notRun"
    /\ updGoMod \in GoModChoices
    /\ goUpdateResults = NoGoUpdate
    /\ updTidy = "notRun"

\* one call of updater.updatePackages(repository, packagesToUpdate)
CallUpdatePackages(io, install) ==
    /\ updCalls < MaxCalls
    /\ LET r == UpdatePackages("/w/app", updFile, updHasLock,
                               packagesToUpdate, io, install)
       IN  /\ updFile' = r.file
           /\ updateResults' = r.result
           /\ updWrites' = updWrites + (IF r.wrote THEN 1 ELSE 0)
           /\ updInstall' = IF r.wrote /\ updHasLock
                            THEN (IF install THEN "ok" ELSE "failed")
                            ELSE "notRun"
    /\ updCalls' = updCalls + 1
    /\ UNCHANGED <<updHasLock, packagesToUpdate, updGoMod, goUpdateResults,
                   updTidy>>

\* one call of goUpdater.updateGoVersion(repository, newVersion)
CallUpdateGoVersion(io, tidy) ==
    /\ updCalls < MaxCalls
    /\ LET r == UpdateGoVersion(updGoMod, LatestGoVersion, io, tidy)
       IN  /\ updGoMod' = r.file
           /\ goUpdateResults' = r.result
           /\ updTidy' = IF r.wrote THEN (IF tidy THEN "ok" ELSE "failed")
                         ELSE "notRun"
    /\ updCalls' = updCalls + 1
    /\ UNCHANGED <<updFile, updHasLock, packagesToUpdate, updateResults,
                   updWrites, updInstall>>

-----------------------------------------------------------------------------
(* The comparator applied to one pair of version strings *)

Triples == (0..MaxComp) \X (0..MaxComp) \X (0..MaxComp)

\* exact versions as a lock file or the registry gives them, with the
\* spellings that parse to the same triple and some that do not parse
VersionStrings ==
    {<<V3(t[1], t[2], t[3])>> : t \in Triples}
    \cup {<<T("v"), V3(1, 1, 1)>>, <<V3(1, 1, 1), T("-beta")>>,
          <<V2(1, 1)>>, <<T("x")>>, <<>>,
          <<V3(1, 0, 0), T(" "), V3(2, 0, 0)>>}

NoResult == [updateType |-> "none", canAutoUpdate |-> FALSE]

CmpIdle ==
    /\ cmpPc = "idle"
    /\ cmpInstalled = EmptyString
    /\ cmpLatest = NULL
    /\ comparisonResults = EmptyMap
    /\ autoUpdatePackages = EmptyMap
    /\ versionComparison = NoResult

CmpInit ==
    /\ cmpPc = "start"
    /\ cmpInstalled \in VersionStrings
    /\ cmpLatest \in VersionStrings \cup {NULL}
    /\ comparisonResults = EmptyMap
    /\ autoUpdatePackages = EmptyMap
    /\ versionComparison = NoResult

\* comparator.compareVersions followed by comparator.getAutoUpdatePackages,
\* as processNpmRepository calls them, for the one dependency "axios"
Compare ==
    /\ cmpPc = "start"
    /\ comparisonResults' =
          CompareVersions([n \in {"axios"} |-> cmpInstalled],
                          [n \in {"axios"} |-> cmpLatest])
    /\ autoUpdatePackages' = GetAutoUpdatePackages(comparisonResults')
    /\ cmpPc' = "compared"
    /\ UNCHANGED <<cmpInstalled, cmpLatest, versionComparison>>

\* goAnalyzer.checkGoVersionUpdate on the same pair
CheckGo ==
    /\ cmpPc = "start"
    /\ cmpLatest # NULL
    /\ versionComparison' = CheckGoVersionUpdate(cmpInstalled, cmpLatest)
    /\ cmpPc' = "goChecked"
    /\ UNCHANGED <<cmpInstalled, cmpLatest, comparisonResults,
                   autoUpdatePackages>>

-----------------------------------------------------------------------------
(* analyzer.fetchLatestVersions *)

batchSize == 10

NamePool == <<"axios", "react", "p03", "p04", "p05", "p06", "p07", "p08",
              "p09", "p10", "p11", "p12", "p13", "p14">>

\* what the registry's document of a package carries as dist-tags.latest:
\* a version, or nothing (undefined) for a package without that tag
RegistryLatest(name) ==
    IF name \in {"p03", "p11"} THEN NULL
    ELSE IF name = "axios" THEN <<V3(0, 21, 4)>>
    ELSE IF name = "react" THEN <<V3(18, 2, 0)>>
    ELSE <<V3(1, 0, 0)>>

Pending == [status |-> "pending", value |-> NULL]
Fulfilled(v) == [status |-> "fulfilled", value |-> v]
\* the rejection carries the Error's message
Rejected == [status |-> "rejected", value |-> <<T("x")>>]

\* packageNames.slice(i, i + batchSize), i counted from 0
Slice(names, i, n) ==
    SubSeq(names, i + 1, IF i + n < Len(names) THEN i + n ELSE Len(names))

\* the promise of Promise.allSettled(promises) is resolved
AllSettledAny(ps, b) == \E n \in Range(b) : ps[n].status # "pending"

AllSettled(ps, b) == \A n \in Range(b) : ps[n].status # "pending"

\* what results.forEach stores for one settled result
SettledValueUnchecked(result) == result.value

SettledValue(result) ==
    IF result.status = "fulfilled" /\ Truthy(result.value)
    THEN result.value
    ELSE NULL

FetchIdle ==
    /\ fetchPc = "idle"
    /\ packageNames = <<>>
    /\ fetchI = 0
    /\ batch = <<>>
    /\ promises = EmptyMap
    /\ latestVersions = EmptyMap

FetchInit ==
    /\ fetchPc = "loop"
    /\ \E n \in 0..MaxNames : packageNames = SubSeq(NamePool, 1, n)
    /\ fetchI = 0
    /\ batch = <<>>
    /\ promises = EmptyMap
    /\ latestVersions = EmptyMap

\* the loop test holds: slice the batch and call fetchPackageInfo for each
\* of its names; every call issues its request before it first awaits
StartBatch ==
    /\ fetchPc = "loop"
    /\ fetchI < Len(packageNames)
    /\ batch' = Slice(packageNames, fetchI, batchSize)
    /\ promises' = ObjectAssign(promises, [n \in Range(batch') |-> Pending])
    /\ fetchPc' = "await"
    /\ UNCHANGED <<packageNames, fetchI, latestVersions>>

\* axios.get answers: fetchPackageInfo returns dist-tags.latest
LookupFulfils(n) ==
    /\ n \in DOMAIN promises
    /\ promises[n].status = "pending"
    /\ promises' = [promises EXCEPT ![n] = Fulfilled(RegistryLatest(n))]
    /\ UNCHANGED <<fetchPc, packageNames, fetchI, batch, latestVersions>>

\* axios.get fails: fetchPackageInfo throws
LookupRejects(n) ==
    /\ n \in DOMAIN promises
    /\ promises[n].status = "pending"
    /\ promises' = [promises EXCEPT ![n] = Rejected]
    /\ UNCHANGED <<fetchPc, packageNames, fetchI, batch, latestVersions>>

\* Promise.allSettled resolves: record every result of the batch, then
\* either wait 500 ms or go on to the loop test
Collect ==
    /\ fetchPc = "await"
    /\ AllSettled(promises, batch)
    /\ latestVersions' =
          ObjectAssign(latestVersions,
                       [n \in Range(batch) |-> SettledValue(promises[n])])
    /\ IF fetchI + batchSize < Len(packageNames)
       THEN fetchPc' = "delay" /\ fetchI' = fetchI
       ELSE fetchPc' = "loop" /\ fetchI' = fetchI + batchSize
    /\ UNCHANGED <<packageNames, batch, promises>>

\* the 500 ms timer fires
DelayElapsed ==
    /\ fetchPc = "delay"
    /\ fetchI' = fetchI + batchSize
    /\ fetchPc' = "loop"
    /\ UNCHANGED <<packageNames, batch, promises, latestVersions>>

\* the loop test fails: return latestVersions
FetchReturn ==
    /\ fetchPc = "loop"
    /\ fetchI >= Len(packageNames)
    /\ fetchPc' = "done"
    /\ UNCHANGED <<packageNames, fetchI, batch, promises, latestVersions>>

-----------------------------------------------------------------------------
(* The run: main, processNpmRepository, processGoRepository *)

\* the result map of fetchLatestVersions when the lookups of `failed` reject
\* and the others fulfil (SpecFetch steps through the batches)
FetchLatestVersions(names, failed) ==
    [n \in names |->
        SettledValue(IF n \in failed THEN Rejected
                     ELSE Fulfilled(RegistryLatest(n)))]

\* two of the directories have the same base name
RepoPaths == {"/w/app", "/w/lib", "/w/svc", "/v/svc"}

RepoType(path) == IF path \in {"/w/svc", "/v/svc"} THEN "go" ELSE "npm"

\* file paths as <<directory, base name, extension>>
ManifestFile(path) == IF RepoType(path) = "go" THEN <<path, "go", ".mod">>
                      ELSE <<path, "package", ".json">>
ReportFile == <<"./reports", "report", ".json">>
DocumentFile == <<"./reports", "packages", ".md">>
RepoDocumentFile(name) == <<"./reports", name, ".md">>

AppManifests ==
    {[name |-> <<T("x")>>,
      dependencies |-> [n \in {"axios"} |-> <<T("^"), V3(0, 21, 1)>>]],
     [name |-> <<T("x")>>,
      dependencies |-> [n \in {"axios", "react"} |->
          IF n = "axios" THEN <<T("^"), V3(0, 21, 1)>>
          ELSE <<V3(17, 0, 2)>>]],
     [name |-> <<T("x")>>],
     MALFORMED}

\* axios declared in all three sections with three different ranges
ThreeSectionManifest ==
    [name |-> <<T("x")>>,
     dependencies |-> [n \in {"axios"} |-> <<T("^"), V3(0, 21, 1)>>],
     devDependencies |-> [n \in {"axios", "react"} |->
         IF n = "axios" THEN <<T("~"), V3(0, 21, 2)>>
         ELSE <<T("~"), V3(17, 0, 2)>>],
     optionalDependencies |->
         [n \in {"axios"} |-> <<T(">"), T("="), V3(0, 21, 3)>>]]

LibManifests ==
    {[name |-> <<T("x")>>,
      dependencies |-> [n \in {"axios"} |-> <<T("^"), V3(0, 21, 1)>>],
      devDependencies |-> [n \in {"react"} |-> <<T("~"), V3(17, 0, 2)>>]],
     ThreeSectionManifest,
     [name |-> <<T("x")>>,
      dependencies |-> [n \in {"axios"} |-> <<T("^"), V3(0, 21, 1)>>],
      devDependencies |-> [n \in {"axios"} |-> <<T("~"), V3(0, 21, 2)>>]]}

LibLocks ==
    {[dependencies |-> [n \in {"axios", "react"} |->
          IF n = "axios" THEN <<V3(0, 21, 4)>> ELSE <<V3(17, 0, 2)>>]],
     [packages |-> [k \in {NodeModules("axios")} |-> <<V3(0, 21, 1)>>]],
     [lockfileVersion |-> 1],
     LockUnreadable}

SvcGoMods ==
    {[module |-> <<T("x")>>, go |-> <<V2(1, 21)>>],
     [module |-> <<T("x")>>, go |-> <<V3(1, 22, 0)>>],
     MALFORMED}

OtherGoMods == {[module |-> <<T("y")>>, go |-> <<V3(1, 22, 0)>>]}

FileChoices(path) ==
    CASE path = "/w/app" -> AppManifests
      [] path = "/w/lib" -> LibManifests
      [] path = "/v/svc" -> OtherGoMods
      [] OTHER -> SvcGoMods

LockChoices(path) == IF path = "/w/lib" THEN LibLocks ELSE {NoLock}

\* sequences of distinct repository paths, at most n long
RECURSIVE PathSeqs(_)
PathSeqs(n) ==
    IF n = 0 THEN {<<>>}
    ELSE LET shorter == PathSeqs(n - 1)
         IN  shorter \cup
             {Append(q, p) : q \in {x \in shorter : Len(x) = n - 1},
                             p \in RepoPaths}

Repository(path) ==
    [path |-> path, type |-> RepoType(path),
     hasLock |-> (path = "/w/lib")]

NoLocals == [dependencies |-> EmptyMap, installedVersions |-> EmptyMap,
             latestVersions |-> EmptyMap]

NoReport == [summary |-> [repositoryCount |-> 0, totalPackages |-> 0,
                          totalAutoUpdated |-> 0,
                          totalManualUpdateNeeded |-> 0, totalCurrent |-> 0],
             repositories |-> <<>>]

RunIdle ==
    /\ runPc = "idle"
    /\ repositories = <<>>
    /\ repoIdx = 0
    /\ files = EmptyMap
    /\ files0 = EmptyMap
    /\ locks = EmptyMap
    /\ locks0 = EmptyMap
    /\ fetched = EmptyMap
    /\ writes = <<>>
    /\ repositoryReports = <<>>
    /\ cur = NoLocals
    /\ consolidatedReport = NoReport
    /\ exitCode = -1
    /\ runs = 0
    /\ updatedBefore = {}

RunInit ==
    /\ runPc = "scan"
    /\ \E q \in PathSeqs(MaxRepos) :
          /\ \A i, j \in 1..Len(q) : i # j => q[i] # q[j]
          /\ repositories = [i \in 1..Len(q) |-> Repository(q[i])]
          /\ files \in [Range(q) -> UNION {FileChoices(p) : p \in RepoPaths}]
          /\ \A p \in Range(q) : files[p] \in FileChoices(p)
          /\ locks \in [Range(q) -> UNION {LockChoices(p) : p \in RepoPaths}]
          /\ \A p \in Range(q) : locks[p] \in LockChoices(p)
    /\ files0 = files
    /\ locks0 = locks
    /\ fetched = EmptyMap
    /\ repoIdx = 0
    /\ writes = <<>>
    /\ repositoryReports = <<>>
    /\ cur = NoLocals
    /\ consolidatedReport = NoReport
    /\ exitCode = -1
    /\ runs = 1
    /\ updatedBefore = {}

\* where the for-of loop goes after the catch block has pushed its entry
AfterCatchAbort(i, n) == n + 1

AfterCatch(i, n) == i + 1

\* what a successful `npm install` leaves in a readable lock file: the
\* rewritten dependencies pinned at the versions the manifest now asks for
NpmInstall(lockFile, updated) ==
    IF "dependencies" \in DOMAIN lockFile
    THEN [lockFile EXCEPT !.dependencies =
            ObjectAssign(@, [n \in DOMAIN updated |->
                                StripRange(updated[n].to)])]
    ELSE IF "packages" \in DOMAIN lockFile
    THEN [lockFile EXCEPT !.packages =
            ObjectAssign(@, [k \in {NodeModules(n) : n \in DOMAIN updated} |->
                                StripRange(updated[k[2]].to)])]
    ELSE lockFile

Repo == repositories[repoIdx]

InLoop == runPc = "loop" /\ repoIdx \in 1..Len(repositories)

\* the empty-list test left out
NoRepositoriesUnchecked(repos) == FALSE

\* repositories.length === 0
NoRepositories(repos) == Len(repos) = 0

\* scanner.findFiles rejects (glob reports an error): findRepositories
\* throws into main's outer catch, process.exit(1)
ScanFails ==
    /\ runPc = "scan"
    /\ exitCode' = 1
    /\ runPc' = "exit"
    /\ UNCHANGED <<repositories, repoIdx, files, files0, locks0, fetched,
                   locks, writes, repositoryReports, cur, consolidatedReport,
                   runs, updatedBefore>>

\* main: no repository found, process.exit(1)
ScanNone ==
    /\ runPc = "scan"
    /\ NoRepositories(repositories)
    /\ exitCode' = 1
    /\ runPc' = "exit"
    /\ UNCHANGED <<repositories, repoIdx, files, files0, locks0, fetched,
                   locks, writes, repositoryReports, cur, consolidatedReport,
                   runs, updatedBefore>>

\* main: repositories found, enter the loop
ScanFound ==
    /\ runPc = "scan"
    /\ ~NoRepositories(repositories)
    /\ repoIdx' = 1
    /\ runPc' = "loop"
    /\ UNCHANGED <<repositories, files, files0, locks0, fetched, locks,
                   writes, repositoryReports, cur, consolidatedReport,
                   exitCode, runs, updatedBefore>>

\* processNpmRepository: readPackageJson throws; main's catch block pushes
\* the error entry
NpmReadFails ==
    /\ InLoop /\ Repo.type = "npm"
    /\ files[Repo.path] = MALFORMED
    /\ repositoryReports' =
          Append(repositoryReports,
                 ErrorEntry(Repo, "Failed to read package.json"))
    /\ repoIdx' = AfterCatch(repoIdx, Len(repositories))
    /\ UNCHANGED <<runPc, repositories, files, files0, locks0, fetched,
                   locks, writes, cur, consolidatedReport, exitCode, runs,
                   updatedBefore>>

\* processNpmRepository: the manifest declares no dependency; return
NpmNoDependencies ==
    /\ InLoop /\ Repo.type = "npm"
    /\ files[Repo.path] # MALFORMED
    /\ DOMAIN ExtractDependencies(files[Repo.path]) = {}
    /\ repoIdx' = repoIdx + 1
    /\ UNCHANGED <<runPc, repositories, files, files0, locks0, fetched,
                   locks, writes, repositoryReports, cur, consolidatedReport,
                   exitCode, runs, updatedBefore>>

\* processNpmRepository up to the call of fetchLatestVersions
NpmRead ==
    /\ InLoop /\ Repo.type = "npm"
    /\ files[Repo.path] # MALFORMED
    /\ LET packageLock == IF Repo.hasLock
                          THEN ReadPackageLock(locks[Repo.path])
                          ELSE NoLock
           dependencies == ExtractDependencies(files[Repo.path])
       IN  /\ DOMAIN dependencies # {}
           /\ cur' = [dependencies |-> dependencies,
                      installedVersions |->
                         GetInstalledVersions(packageLock, dependencies),
                      latestVersions |-> EmptyMap]
    /\ runPc' = "npmFetch"
    /\ UNCHANGED <<repositories, repoIdx, files, files0, locks0, fetched,
                   locks, writes, repositoryReports, consolidatedReport,
                   exitCode, runs, updatedBefore>>

\* fetchLatestVersions returns; the lookups of `failed` were rejected
NpmFetch(failed) ==
    /\ runPc = "npmFetch"
    /\ cur' = [cur EXCEPT !.latestVersions =
                  FetchLatestVersions(DOMAIN cur.dependencies, failed)]
    /\ fetched' = ObjectAssign(fetched,
                    [p \in {Repo.path} |-> cur'.latestVersions])
    /\ runPc' = "npmUpdate"
    /\ UNCHANGED <<repositories, repoIdx, files, files0, locks, locks0,
                   writes, repositoryReports, consolidatedReport, exitCode,
                   runs, updatedBefore>>

\* processNpmRepository from compareVersions to the push of the report
NpmUpdate(io, install) ==
    /\ runPc = "npmUpdate"
    /\ LET results == CompareVersions(cur.installedVersions,
                                      cur.latestVersions)
           toUpdate == GetAutoUpdatePackages(results)
           called == DOMAIN toUpdate # {}
           r == UpdatePackages(Repo.path, files[Repo.path], Repo.hasLock,
                               toUpdate, io, install)
           updResults == IF called THEN r.result ELSE NoUpdateResults
       IN  /\ files' = IF called THEN [files EXCEPT ![Repo.path] = r.file]
                       ELSE files
           /\ writes' = IF called /\ r.wrote
                        THEN Append(writes, ManifestFile(Repo.path))
                        ELSE writes
           /\ locks' = IF called /\ r.wrote /\ Repo.hasLock /\ install
                       THEN [locks EXCEPT ![Repo.path] =
                               NpmInstall(@, r.result.updatedDependencies)]
                       ELSE locks
           /\ repositoryReports' =
                 Append(repositoryReports,
                        GenerateRepositoryReport(Repo, results, updResults))
    /\ cur' = NoLocals
    /\ repoIdx' = repoIdx + 1
    /\ runPc' = "loop"
    /\ UNCHANGED <<repositories, files0, locks0, fetched, consolidatedReport,
                   exitCode, runs, updatedBefore>>

\* processGoRepository: readGoMod throws; main's catch block pushes the
\* error entry
GoReadFails ==
    /\ InLoop /\ Repo.type = "go"
    /\ files[Repo.path] = MALFORMED
    /\ repositoryReports' =
          Append(repositoryReports,
                 ErrorEntry(Repo, "Failed to read go.mod file"))
    /\ repoIdx' = AfterCatch(repoIdx, Len(repositories))
    /\ UNCHANGED <<runPc, repositories, files, files0, locks0, fetched,
                   locks, writes, cur, consolidatedReport, exitCode, runs,
                   updatedBefore>>

\* processGoRepository
GoProcess(io, tidy) ==
    /\ InLoop /\ Repo.type = "go"
    /\ files[Repo.path] # MALFORMED
    /\ LET goMod == files[Repo.path]
           comparison == CheckGoVersionUpdate(goMod.go, LatestGoVersion)
           results == [n \in {"go"} |->
                         [installed |-> goMod.go,
                          latest |-> LatestGoVersion,
                          updateType |-> comparison.updateType,
                          canAutoUpdate |-> comparison.canAutoUpdate]]
           called == comparison.canAutoUpdate
           r == UpdateGoVersion(goMod, LatestGoVersion, io, tidy)
           updResults == IF called THEN r.result ELSE NoUpdateResults
       IN  /\ files' = IF called THEN [files EXCEPT ![Repo.path] = r.file]
                       ELSE files
           /\ writes' = IF called /\ r.wrote
                        THEN Append(writes, ManifestFile(Repo.path))
                        ELSE writes
           /\ repositoryReports' =
                 Append(repositoryReports,
                        GenerateRepositoryReport(Repo, results, updResults))
    /\ repoIdx' = repoIdx + 1
    /\ UNCHANGED <<runPc, repositories, files0, locks0, fetched, locks, cur,
                   consolidatedReport, exitCode, runs, updatedBefore>>

\* main: the loop is over, generateConsolidatedReport
Consolidate ==
    /\ runPc = "loop"
    /\ repoIdx > Len(repositories)
    /\ consolidatedReport' = GenerateConsolidatedReport(repositoryReports)
    /\ runPc' = "writeReport"
    /\ UNCHANGED <<repositories, repoIdx, files, files0, locks0, fetched,
                   locks, writes, repositoryReports, cur, exitCode, runs,
                   updatedBefore>>

\* reporter.writeReport
WriteReport ==
    /\ runPc = "writeReport"
    /\ writes' = Append(writes, ReportFile)
    /\ runPc' = "document"
    /\ UNCHANGED <<repositories, repoIdx, files, files0, locks0, fetched,
                   locks, repositoryReports, cur, consolidatedReport,
                   exitCode, runs, updatedBefore>>

\* reporter.writeReport throws; main's outer catch, process.exit(1)
WriteReportFails ==
    /\ runPc = "writeReport"
    /\ exitCode' = 1
    /\ runPc' = "exit"
    /\ UNCHANGED <<repositories, repoIdx, files, files0, locks0, fetched,
                   locks, writes, repositoryReports, cur, consolidatedReport,
                   runs, updatedBefore>>

\* the files generateDocument writes for a report, in order: the combined
\* document, then one document per entry of the report
DocumentPaths(report) ==
    <<DocumentFile>> \o
    [i \in 1..Len(report.repositories) |->
        RepoDocumentFile(report.repositories[i].name)]

\* documentGenerator.generateDocument; main returns
GenerateDocument ==
    /\ runPc = "document"
    /\ writes' = writes \o DocumentPaths(consolidatedReport)
    /\ exitCode' = 0
    /\ runPc' = "exit"
    /\ UNCHANGED <<repositories, repoIdx, files, files0, locks0, fetched,
                   locks, repositoryReports, cur, consolidatedReport, runs,
                   updatedBefore>>

\* generateDocument throws after `done` of its writes; main's outer catch,
\* process.exit(1)
GenerateDocumentFails(done) ==
    /\ runPc = "document"
    /\ done < Len(DocumentPaths(consolidatedReport))
    /\ writes' = writes \o SubSeq(DocumentPaths(consolidatedReport), 1, done)
    /\ exitCode' = 1
    /\ runPc' = "exit"
    /\ UNCHANGED <<repositories, repoIdx, files, files0, locks0, fetched,
                   locks, repositoryReports, cur, consolidatedReport, runs,
                   updatedBefore>>

\* the program is started again over the same repositories, after a run
\* that ended with exit code 0
Rerun ==
    /\ runPc = "exit" /\ exitCode = 0
    /\ runs < MaxRuns
    /\ runs' = runs + 1
    /\ runPc' = "scan"
    /\ repoIdx' = 0
    /\ files0' = files
    /\ locks0' = locks
    /\ fetched' = EmptyMap
    /\ writes' = <<>>
    /\ repositoryReports' = <<>>
    /\ cur' = NoLocals
    /\ consolidatedReport' = NoReport
    /\ exitCode' = -1
    /\ updatedBefore' =
          {repositoryReports[k].path : k \in
              {j \in 1..Len(repositoryReports) :
                  /\ "error" \notin DOMAIN repositoryReports[j]
                  /\ repositoryReports[j].autoUpdated}}
    /\ UNCHANGED <<repositories, files, locks>>

IoOutcomes == {"ok", "readFails", "writeFails"}

-----------------------------------------------------------------------------
(* Specifications *)

CmpNext ==
    \/ Compare /\ UNCHANGED <<fetchVars, updVars, runVars>>
    \/ CheckGo /\ UNCHANGED <<fetchVars, updVars, runVars>>

InitCmp == CmpInit /\ FetchIdle /\ UpdIdle /\ RunIdle

SpecCmp == InitCmp /\ [][CmpNext]_vars

FetchNext ==
    \/ StartBatch /\ UNCHANGED <<cmpVars, updVars, runVars>>
    \/ (\E n \in Range(packageNames) : LookupFulfils(n))
          /\ UNCHANGED <<cmpVars, updVars, runVars>>
    \/ (\E n \in Range(packageNames) : LookupRejects(n))
          /\ UNCHANGED <<cmpVars, updVars, runVars>>
    \/ Collect /\ UNCHANGED <<cmpVars, updVars, runVars>>
    \/ DelayElapsed /\ UNCHANGED <<cmpVars, updVars, runVars>>
    \/ FetchReturn /\ UNCHANGED <<cmpVars, updVars, runVars>>

InitFetch == FetchInit /\ CmpIdle /\ UpdIdle /\ RunIdle

SpecFetch == InitFetch /\ [][FetchNext]_vars

UpdNext ==
    \/ (\E io \in IoOutcomes, install \in BOOLEAN :
            CallUpdatePackages(io, install))
          /\ UNCHANGED <<cmpVars, fetchVars, runVars>>
    \/ (\E io \in IoOutcomes, tidy \in BOOLEAN :
            CallUpdateGoVersion(io, tidy))
          /\ UNCHANGED <<cmpVars, fetchVars, runVars>>

RunNext ==
    \/ Rerun /\ UNCHANGED <<cmpVars, fetchVars, updVars>>
    \/ ScanFails /\ UNCHANGED <<cmpVars, fetchVars, updVars>>
    \/ ScanNone /\ UNCHANGED <<cmpVars, fetchVars, updVars>>
    \/ ScanFound /\ UNCHANGED <<cmpVars, fetchVars, updVars>>
    \/ NpmReadFails /\ UNCHANGED <<cmpVars, fetchVars, updVars>>
    \/ NpmNoDependencies /\ UNCHANGED <<cmpVars, fetchVars, updVars>>
    \/ NpmRead /\ UNCHANGED <<cmpVars, fetchVars, updVars>>
    \/ (\E failed \in SUBSET DOMAIN cur.dependencies : NpmFetch(failed))
          /\ UNCHANGED <<cmpVars, fetchVars, updVars>>
    \/ (\E io \in IoOutcomes, install \in BOOLEAN : NpmUpdate(io, install))
          /\ UNCHANGED <<cmpVars, fetchVars, updVars>>
    \/ GoReadFails /\ UNCHANGED <<cmpVars, fetchVars, updVars>>
    \/ (\E io \in IoOutcomes, tidy \in BOOLEAN : GoProcess(io, tidy))
          /\ UNCHANGED <<cmpVars, fetchVars, updVars>>
    \/ Consolidate /\ UNCHANGED <<cmpVars, fetchVars, updVars>>
    \/ WriteReport /\ UNCHANGED <<cmpVars, fetchVars, updVars>>
    \/ WriteReportFails /\ UNCHANGED <<cmpVars, fetchVars, updVars>>
    \/ GenerateDocument /\ UNCHANGED <<cmpVars, fetchVars, updVars>>
    \/ (\E done \in 0..MaxRepos : GenerateDocumentFails(done))
          /\ UNCHANGED <<cmpVars, fetchVars, updVars>>

InitRun == RunInit /\ CmpIdle /\ FetchIdle /\ UpdIdle

SpecRun == InitRun /\ [][RunNext]_vars

InitUpd == UpdInit /\ CmpIdle /\ FetchIdle /\ RunIdle

SpecUpd == InitUpd /\ [][UpdNext]_vars

-----------------------------------------------------------------------------
(* Claims about the comparator *)

\* the classification by magnitude: the first component, in the order
\* major, minor, patch, at which two triples differ
FirstDifference(i, l) ==
    IF Major(i) # Major(l) THEN "major"
    ELSE IF Minor(i) # Minor(l) THEN "minor"
    ELSE IF Patch(i) # Patch(l) THEN "patch"
    ELSE "current"

\* C1: for valid versions whose strings and triples differ, the
\* classification of compareVersions, and of checkGoVersionUpdate, is the
\* first differing component among major, minor, patch, whichever of the
\* two versions is the larger.
C1_ClassifiedByFirstDifference ==
    /\ (/\ cmpPc = "compared"
        /\ SemverValid(cmpInstalled) /\ SemverValid(cmpLatest)
        /\ SemverParse(cmpInstalled) # SemverParse(cmpLatest))
       => comparisonResults["axios"].updateType =
             FirstDifference(SemverParse(cmpInstalled), SemverParse(cmpLatest))
    /\ (/\ cmpPc = "goChecked"
        /\ SemverCoerce(cmpInstalled) # <<>> /\ SemverCoerce(cmpLatest) # <<>>
        /\ SemverCoerce(cmpInstalled) # SemverCoerce(cmpLatest))
       => versionComparison.updateType =
             FirstDifference(SemverCoerce(cmpInstalled),
                             SemverCoerce(cmpLatest))

\* C2: an entry of compareVersions with canAutoUpdate = true has the major
\* and the minor of the installed version equal to those of the latest.
C2_AutoUpdateKeepsMajorMinor ==
    (cmpPc = "compared" /\ comparisonResults["axios"].canAutoUpdate)
    => /\ Major(SemverParse(cmpInstalled)) = Major(SemverParse(cmpLatest))
       /\ Minor(SemverParse(cmpInstalled)) = Minor(SemverParse(cmpLatest))

\* C3: in every classification result of both ecosystems the auto-update
\* flag is true exactly when the classification is "patch", and
\* getAutoUpdatePackages returns exactly the names classified "patch".
C3_AutoUpdatableIffPatch ==
    /\ cmpPc = "compared" =>
          /\ \A n \in DOMAIN comparisonResults :
                /\ comparisonResults[n].canAutoUpdate
                      <=> comparisonResults[n].updateType = "patch"
                /\ comparisonResults[n].updateType \in
                      {"current", "patch", "minor", "major", "unknown"}
          /\ DOMAIN autoUpdatePackages =
                {n \in DOMAIN comparisonResults :
                    comparisonResults[n].updateType = "patch"}
    /\ cmpPc = "goChecked" =>
          /\ versionComparison.canAutoUpdate
                <=> versionComparison.updateType = "patch"
          /\ versionComparison.updateType \in
                {"current", "patch", "minor", "major", "unknown"}

\* a patch classification that getAutoUpdatePackages returns
C3_Witness ==
    /\ cmpPc = "compared"
    /\ comparisonResults["axios"].updateType = "patch"
    /\ comparisonResults["axios"].canAutoUpdate
    /\ DOMAIN autoUpdatePackages = {"axios"}

\* C15: a dependency whose latest version is null or unavailable (the
\* lookup failed or gave nothing) is recorded by compareVersions as
\* unknown, not auto-updatable, with latest = null, whatever its installed
\* version, and getAutoUpdatePackages does not return it, so that it is
\* not passed to updatePackages.
C15_FailedLookupIsUnknown ==
    (cmpPc = "compared" /\ (cmpLatest = NULL \/ cmpLatest = EmptyString))
    => /\ comparisonResults["axios"] =
             [installed |-> cmpInstalled, latest |-> NULL,
              updateType |-> "unknown", canAutoUpdate |-> FALSE]
       /\ "axios" \notin DOMAIN autoUpdatePackages

\* a valid installed version compared with a failed lookup
C15_Witness ==
    /\ cmpPc = "compared"
    /\ cmpLatest = NULL
    /\ cmpInstalled = <<V3(1, 1, 1)>>
    /\ comparisonResults["axios"].updateType = "unknown"
    /\ autoUpdatePackages = EmptyMap

\* C17: a dependency whose installed or latest version string does not
\* parse as a semantic version is classified unknown by compareVersions and
\* is not auto-updatable, also when the two strings are identical.
C17_UnparsableIsUnknown ==
    (cmpPc = "compared"
     /\ (~SemverValid(cmpInstalled) \/ ~SemverValid(cmpLatest)))
    => /\ comparisonResults["axios"].updateType = "unknown"
       /\ ~comparisonResults["axios"].canAutoUpdate

\* the order of semantic versions on triples
TripleLess(a, b) ==
    \/ Major(a) < Major(b)
    \/ Major(a) = Major(b) /\ Minor(a) < Minor(b)
    \/ Major(a) = Major(b) /\ Minor(a) = Minor(b) /\ Patch(a) < Patch(b)

\* C22: whenever compareVersions marks a dependency auto-updatable, so that
\* getAutoUpdatePackages hands it to the updater, its latest version is
\* strictly greater than its installed version in semantic-version order.
C22_AutoUpdateNeverLowers ==
    (cmpPc = "compared" /\ comparisonResults["axios"].canAutoUpdate)
    => /\ "axios" \in DOMAIN autoUpdatePackages
       /\ TripleLess(SemverParse(cmpInstalled), SemverParse(cmpLatest))

-----------------------------------------------------------------------------
(* Claims about fetchLatestVersions *)

InFlight == {n \in DOMAIN promises : promises[n].status = "pending"}

\* the number of the batch that holds the k-th name, k counted from 1
BatchOf(k) == (k - 1) \div batchSize

\* C6: fetchLatestVersions returns a map with exactly one key per requested
\* name; a name whose lookup failed maps to null and a name whose lookup
\* returned a version maps to that version, whatever happened to the other
\* names of the same or of another batch.
C6_OneEntryPerName ==
    /\ \A n \in DOMAIN latestVersions :
          /\ promises[n].status = "rejected" => latestVersions[n] = NULL
          /\ (promises[n].status = "fulfilled" /\ RegistryLatest(n) # NULL)
                => latestVersions[n] = RegistryLatest(n)
          /\ (promises[n].status = "fulfilled" /\ RegistryLatest(n) = NULL)
                => latestVersions[n] = NULL
          /\ promises[n].status # "pending"
    /\ fetchPc = "done" => DOMAIN latestVersions = Range(packageNames)

\* two batches returned, with failures in both and successes beside them
C6_Witness ==
    /\ fetchPc = "done"
    /\ Len(packageNames) = 12
    /\ promises["axios"].status = "rejected" /\ latestVersions["axios"] = NULL
    /\ promises["p12"].status = "rejected" /\ latestVersions["p12"] = NULL
    /\ latestVersions["react"] = <<V3(18, 2, 0)>>
    /\ latestVersions["p11"] = NULL
    /\ latestVersions["p10"] = <<V3(1, 0, 0)>>

\* C7: at most batchSize lookups are in flight; the names are taken in
\* consecutive batches of at most batchSize, the lookups of a batch start
\* together, and none of a later batch starts before every lookup of the
\* batches before it has settled.
C7_BatchesBoundInFlight ==
    /\ Cardinality(InFlight) <= batchSize
    /\ Len(batch) <= batchSize
    /\ fetchPc \in {"await", "delay"} =>
          /\ batch = Slice(packageNames, fetchI, batchSize)
          /\ DOMAIN promises =
                {packageNames[k] : k \in 1..(fetchI + Len(batch))}
    /\ fetchPc # "await" => InFlight = {}
    /\ InFlight \subseteq Range(batch)
    /\ \A k \in 1..Len(packageNames) : \A j \in 1..Len(packageNames) :
          (packageNames[k] \in DOMAIN promises /\ BatchOf(j) < BatchOf(k))
          => /\ packageNames[j] \in DOMAIN promises
             /\ promises[packageNames[j]].status # "pending"

\* the second batch is in flight after the first has settled
C7_Witness ==
    /\ fetchPc = "await"
    /\ fetchI = batchSize
    /\ Cardinality(InFlight) = 2
    /\ Cardinality(DOMAIN promises) = 12

-----------------------------------------------------------------------------
(* Claims about the updater *)

\* C5: when updatePackages has run twice with the same approved map on the
\* same manifest, both times writing it, the changed record
\* (updatedDependencies) of the second call is empty.
C5_SecondCallChangesNothing ==
    (updCalls = 2 /\ updWrites = 2 /\ updateResults.updated)
    => updateResults.updatedDependencies = EmptyMap

\* the value of a name in a section of a manifest, NULL when not declared
Declared(manifest, section, name) ==
    IF section \in DOMAIN manifest THEN Get(manifest[section], name) ELSE NULL

\* a step that is a call of updatePackages returning updated = true
UpdatedCall ==
    /\ \E io \in IoOutcomes, install \in BOOLEAN :
          CallUpdatePackages(io, install)
    /\ updateResults'.updated

\* a section declares a name when its entry passes the test the code puts
\* on it, `if (packageJson[section][name])`: the key is there and its value
\* is not the empty string
Declares(manifest, section, name) ==
    Truthy(Declared(manifest, section, name))

C19_ChangedRecordPerSection ==
    [][UpdatedCall =>
        \A i \in 1..Len(Sections) : \A n \in DOMAIN packagesToUpdate :
            Declares(updFile, Sections[i], n) =>
                \E m \in DOMAIN updateResults'.updatedDependencies :
                    LET tuple == updateResults'.updatedDependencies[m]
                    IN  /\ m = n
                        /\ tuple.type = Sections[i]
                        /\ tuple.from = updFile[Sections[i]][n]
                        /\ tuple.to = Caret(packagesToUpdate[n])]_vars

-----------------------------------------------------------------------------
(* Claims about the run *)

ReportIndexes(path) ==
    {k \in 1..Len(repositoryReports) : repositoryReports[k].path = path}

IsError(report) == "error" \in DOMAIN report

\* the installed versions processNpmRepository computes for a repository
\* from the files as the run found them
InstalledAtStart(repository) ==
    GetInstalledVersions(
        IF repository.hasLock THEN ReadPackageLock(locks0[repository.path])
        ELSE NoLock,
        ExtractDependencies(files0[repository.path]))

\* C4: a dependency in the manual bucket (classified minor or major) is not
\* in the auto-updated bucket and keeps, in every section of the manifest,
\* the value it had before the run, also when other dependencies of the
\* repository are rewritten; a repository without auto-updatable dependency
\* has its manifest not written at all.
C4_ManualNeverApplied ==
    \A k \in 1..Len(repositoryReports) :
        LET rep == repositoryReports[k]
        IN  ~IsError(rep) =>
            /\ \A n \in DOMAIN rep.manualUpdatePackages :
                  /\ rep.manualUpdatePackages[n].updateType
                        \in {"minor", "major"}
                  /\ n \notin DOMAIN rep.autoUpdatePackages
                  /\ n \notin DOMAIN rep.currentPackages
                  /\ IF rep.type = "npm"
                     THEN \A i \in 1..Len(Sections) :
                            Declared(files[rep.path], Sections[i], n) =
                            Declared(files0[rep.path], Sections[i], n)
                     ELSE files[rep.path].go = files0[rep.path].go
            /\ rep.autoUpdateCount = 0 =>
                  /\ files[rep.path] = files0[rep.path]
                  /\ \A w \in 1..Len(writes) :
                        writes[w] # ManifestFile(rep.path)

\* react (major) is listed as manual and untouched beside axios (patch),
\* which the same run rewrote
C4_Witness ==
    \E k \in 1..Len(repositoryReports) :
        LET rep == repositoryReports[k]
        IN  /\ rep.path = "/w/app"
            /\ ~IsError(rep)
            /\ DOMAIN rep.manualUpdatePackages = {"react"}
            /\ rep.manualUpdatePackages["react"].updateType = "major"
            /\ rep.autoUpdated
            /\ files["/w/app"].dependencies["axios"] = <<T("^"), V3(0, 21, 4)>>
            /\ files["/w/app"].dependencies["react"] = <<V3(17, 0, 2)>>
            /\ files0["/w/app"].dependencies["axios"] = <<T("^"), V3(0, 21, 1)>>

AxiosManifest ==
    [name |-> <<T("x")>>,
     dependencies |-> [n \in {"axios"} |-> <<T("^"), V3(0, 21, 1)>>]]

\* the report of the repository of the axios scenario: no lock, axios
\* declared as "^0.21.1", the registry returned 0.21.4
AxiosScenario(rep) ==
    /\ rep.path = "/w/app"
    /\ ~IsError(rep)
    /\ files0["/w/app"] = AxiosManifest
    /\ fetched["/w/app"]["axios"] = <<V3(0, 21, 4)>>

\* C8 as stated: in the axios scenario the manifest is rewritten to
\* "^0.21.4" and the auto-updated bucket holds axios with from "^0.21.1",
\* to "^0.21.4", updateType "patch" (the manifest values before and after).
C8_BucketHoldsManifestValues ==
    \A k \in 1..Len(repositoryReports) :
        LET rep == repositoryReports[k]
        IN  AxiosScenario(rep) =>
            /\ files["/w/app"].dependencies["axios"] = <<T("^"), V3(0, 21, 4)>>
            /\ "axios" \in DOMAIN rep.autoUpdatePackages
            /\ rep.autoUpdatePackages["axios"] =
                  [from |-> <<T("^"), V3(0, 21, 1)>>,
                   to |-> <<T("^"), V3(0, 21, 4)>>,
                   updateType |-> "patch"]

\* C8 amended: in the axios scenario the auto-updated bucket holds axios
\* with from "0.21.1", to "0.21.4", updateType "patch", and the manifest
\* entry is "^0.21.4" when the update step reports updated; in general the
\* from and to of an auto-updated entry are the installed version and the
\* registry's latest version that were compared, and the rewritten manifest
\* value is "^" followed by to.
C8_BucketHoldsComparedVersions ==
    \A k \in 1..Len(repositoryReports) :
        LET rep == repositoryReports[k]
        IN  /\ AxiosScenario(rep) =>
                /\ DOMAIN rep.autoUpdatePackages = {"axios"}
                /\ rep.autoUpdatePackages["axios"] =
                      [from |-> <<V3(0, 21, 1)>>, to |-> <<V3(0, 21, 4)>>,
                       updateType |-> "patch"]
                /\ rep.autoUpdated =>
                      files["/w/app"].dependencies["axios"] =
                         <<T("^"), V3(0, 21, 4)>>
            /\ (~IsError(rep) /\ rep.type = "npm") =>
                \A n \in DOMAIN rep.autoUpdatePackages :
                   LET e == rep.autoUpdatePackages[n]
                   IN  /\ e.from = InstalledAtStart(repositories[
                                      CHOOSE i \in 1..Len(repositories) :
                                         repositories[i].path = rep.path])[n]
                       /\ e.to = fetched[rep.path][n]
                       /\ e.updateType = "patch"
                       /\ rep.autoUpdated =>
                             \A i \in 1..Len(Sections) :
                                Truthy(Declared(files0[rep.path],
                                                Sections[i], n))
                                => Declared(files[rep.path], Sections[i], n)
                                      = Caret(e.to)

\* the axios scenario after a successful update
C8_Witness ==
    \E k \in 1..Len(repositoryReports) :
        LET rep == repositoryReports[k]
        IN  /\ AxiosScenario(rep)
            /\ rep.autoUpdated
            /\ rep.autoUpdatePackages["axios"].from = <<V3(0, 21, 1)>>
            /\ files["/w/app"].dependencies["axios"] = <<T("^"), V3(0, 21, 4)>>
            /\ files0["/w/app"].dependencies["axios"] = <<T("^"), V3(0, 21, 1)>>

Consolidated == runPc \in {"writeReport", "document"}

RECURSIVE SumOfSuccessful(_, _)
SumOfSuccessful(reports, field) ==
    IF reports = <<>> THEN 0
    ELSE SumOfSuccessful(Tail(reports), field)
         + (IF IsError(Head(reports)) THEN 0 ELSE Head(reports)[field])

\* C9: the consolidated report counts failed repositories in
\* repositoryCount, their entries contribute zero to the totals, and each
\* total is the sum of the counts of the successfully processed ones.
C9_FailedContributeZero ==
    Consolidated =>
        LET summary == consolidatedReport.summary
            reports == consolidatedReport.repositories
        IN  /\ summary.repositoryCount = Len(reports)
            /\ summary.totalPackages =
                  SumOfSuccessful(reports, "packageCount")
            /\ summary.totalAutoUpdated =
                  SumOfSuccessful(reports, "autoUpdateCount")
            /\ summary.totalManualUpdateNeeded =
                  SumOfSuccessful(reports, "manualUpdateCount")
            /\ summary.totalCurrent =
                  SumOfSuccessful(reports, "currentCount")

\* whether a repository, processed on its own, yields a report entry:
\* processNpmRepository returns without one when no dependency is declared
YieldsReport(repository) ==
    /\ files0[repository.path] # MALFORMED
    /\ repository.type = "npm" =>
          DOMAIN ExtractDependencies(files0[repository.path]) # {}

\* the number of results processNpmRepository / processGoRepository compare
ExpectedPackageCount(repository) ==
    IF repository.type = "go" THEN 1
    ELSE Cardinality(DOMAIN InstalledAtStart(repository))

\* the for-of loop has passed the i-th repository
Processed(i) == i < repoIdx

-----------------------------------------------------------------------------
(* Claims about the exit code *)

IsSubSeq(part, whole, at) ==
    /\ at + Len(part) - 1 <= Len(whole)
    /\ \A k \in 1..Len(part) : whole[at + k - 1] = part[k]

\* the report file and then every document of the report were written
OutputsWritten ==
    \E at \in 1..Len(writes) :
        /\ writes[at] = ReportFile
        /\ IsSubSeq(DocumentPaths(consolidatedReport), writes, at + 1)
        /\ at + Len(DocumentPaths(consolidatedReport)) = Len(writes)

\* C11: the process exits with zero exactly when at least one repository
\* was discovered and the report and all documents were written, whether
\* or not repositories failed; with zero repositories, or when the scan,
\* the report or a document fails, it exits with one, and with zero
\* repositories neither the report nor a document is written.
C11_ExitCode ==
    runPc = "exit" =>
        /\ exitCode \in {0, 1}
        /\ exitCode = 0 <=> (Len(repositories) > 0 /\ OutputsWritten)
        /\ Len(repositories) = 0 => (exitCode = 1 /\ writes = <<>>)

\* every repository failed and the run still ended with exit code 0
C11_Witness ==
    /\ runPc = "exit" /\ exitCode = 0
    /\ Len(repositories) = 2
    /\ Len(repositoryReports) = 2
    /\ \A k \in 1..2 : IsError(repositoryReports[k])
    /\ OutputsWritten

-----------------------------------------------------------------------------
(* Claims about the repository report *)

RepositoryAt(path) ==
    repositories[CHOOSE i \in 1..Len(repositories) :
                    repositories[i].path = path]

\* the classification results a repository's report was built from
ResultsOf(path) ==
    IF RepoType(path) = "go"
    THEN LET c == CheckGoVersionUpdate(files0[path].go, LatestGoVersion)
         IN  [n \in {"go"} |->
                 [installed |-> files0[path].go, latest |-> LatestGoVersion,
                  updateType |-> c.updateType,
                  canAutoUpdate |-> c.canAutoUpdate]]
    ELSE CompareVersions(InstalledAtStart(RepositoryAt(path)), fetched[path])

Names(results, types) ==
    {n \in DOMAIN results : results[n].updateType \in types}

\* C12: in every repository report the current bucket holds exactly the
\* dependencies classified current, the auto-updated bucket exactly the
\* auto-updatable ones, each labelled patch, the manual bucket exactly those
\* classified minor or major, and no bucket holds one classified unknown;
\* the buckets are pairwise disjoint and the three counts add up to
\* packageCount minus the number of unknown dependencies.
C12_BucketsPartition ==
    \A k \in 1..Len(repositoryReports) :
        LET rep == repositoryReports[k]
            results == ResultsOf(rep.path)
            auto == DOMAIN rep.autoUpdatePackages
            manual == DOMAIN rep.manualUpdatePackages
            current == DOMAIN rep.currentPackages
        IN  ~IsError(rep) =>
            /\ current = Names(results, {"current"})
            /\ auto = {n \in DOMAIN results : results[n].canAutoUpdate}
            /\ \A n \in auto : rep.autoUpdatePackages[n].updateType = "patch"
            /\ manual = Names(results, {"minor", "major"})
            /\ \A n \in manual :
                  rep.manualUpdatePackages[n].updateType =
                     results[n].updateType
            /\ (auto \cup manual \cup current)
                  \cap Names(results, {"unknown"}) = {}
            /\ auto \cap manual = {}
            /\ auto \cap current = {}
            /\ manual \cap current = {}
            /\ rep.packageCount = Cardinality(DOMAIN results)
            /\ rep.autoUpdateCount = Cardinality(auto)
            /\ rep.manualUpdateCount = Cardinality(manual)
            /\ rep.currentCount = Cardinality(current)
            /\ rep.autoUpdateCount + rep.manualUpdateCount + rep.currentCount
                  = rep.packageCount
                    - Cardinality(Names(results, {"unknown"}))

\* a report of two dependencies, one unknown (its lookup failed) and in no
\* bucket, the other in the manual bucket
C12_Witness ==
    \E k \in 1..Len(repositoryReports) :
        LET rep == repositoryReports[k]
        IN  /\ rep.path = "/w/app"
            /\ ~IsError(rep)
            /\ rep.packageCount = 2
            /\ fetched["/w/app"]["axios"] = NULL
            /\ DOMAIN rep.manualUpdatePackages = {"react"}
            /\ rep.autoUpdateCount = 0 /\ rep.currentCount = 0

-----------------------------------------------------------------------------
(* Claims about the manifest reader *)

\* the sections of a manifest that declare a name, as positions in Sections
DeclaringSections(manifest, name) ==
    {i \in 1..Len(Sections) :
        /\ Sections[i] \in DOMAIN manifest
        /\ name \in DOMAIN manifest[Sections[i]]}

DeclaredNames(manifest) ==
    UNION {DOMAIN manifest[Sections[i]] :
              i \in {j \in 1..Len(Sections) : Sections[j] \in DOMAIN manifest}}

Last(S) == CHOOSE i \in S : \A j \in S : j <= i

\* the manifest processNpmRepository is reading
CurManifest == files[Repo.path]

\* the lock processNpmRepository hands to getInstalledVersions
CurLock == IF Repo.hasLock THEN ReadPackageLock(locks[Repo.path]) ELSE NoLock

\* the version a lock pins for a name: in the older format under the name,
\* in the newer one under node_modules/<name>; NULL when it pins none
Pinned(lock, name) ==
    IF "dependencies" \in DOMAIN lock THEN Get(lock.dependencies, name)
    ELSE IF "packages" \in DOMAIN lock
         THEN Get(lock.packages, NodeModules(name))
         ELSE NULL

\* C16: for every lock (absent, older format, newer format, or parsed with
\* neither section) getInstalledVersions returns exactly one entry per
\* declared name: the version the lock pins for the name, otherwise the
\* declared range without its range operators.
C16_OneEntryPerDeclaredName ==
    runPc = "npmFetch" =>
        /\ DOMAIN cur.installedVersions = DOMAIN cur.dependencies
        /\ \A n \in DOMAIN cur.installedVersions :
              cur.installedVersions[n] =
                 IF Pinned(CurLock, n) # NULL THEN Pinned(CurLock, n)
                 ELSE StripRange(cur.dependencies[n])

\* C13: the map extractDependencies returns has exactly the names declared
\* in at least one of the three sections, and gives each name the value of
\* the last section, in the order direct, development, optional, that
\* declares it.
C13_LastSectionWins ==
    runPc = "npmFetch" =>
        /\ DOMAIN cur.dependencies = DeclaredNames(CurManifest)
        /\ \A n \in DOMAIN cur.dependencies :
              cur.dependencies[n] =
                 CurManifest[Sections[Last(DeclaringSections(CurManifest,
                                                             n))]][n]

\* axios declared in the three sections: the optional value was returned,
\* beside react, which only the development section declares
C13_Witness ==
    /\ runPc = "npmFetch"
    /\ CurManifest = ThreeSectionManifest
    /\ cur.dependencies["axios"] = <<T(">"), T("="), V3(0, 21, 3)>>
    /\ cur.dependencies["react"] = <<T("~"), V3(17, 0, 2)>>

-----------------------------------------------------------------------------
(* Claims about the secondary regeneration step *)

\* every entry of an approved name, in every section declaring it, holds
\* the caret-prefixed approved version
RewrittenValuesKept ==
    \A i \in 1..Len(Sections) : \A n \in DOMAIN packagesToUpdate :
        Truthy(Declared(updFile, Sections[i], n))
        => Declared(updFile, Sections[i], n) = Caret(packagesToUpdate[n])

\* C14: when the manifest was rewritten and `npm install` then failed, the
\* call returns updated = true with packageLockUpdated = false and no
\* error, and the manifest holds the rewritten values; likewise when go.mod
\* was rewritten and `go mod tidy` failed, updateGoVersion returns updated
\* = true with goModTidied = false and no error, and go.mod holds the new
\* version.
C14_RegenerationFailureKeepsUpdate ==
    /\ updInstall = "failed" =>
          /\ updateResults.updated
          /\ updateResults.packageLockUpdated = FALSE
          /\ "error" \notin DOMAIN updateResults
          /\ RewrittenValuesKept
    /\ updTidy = "failed" =>
          /\ goUpdateResults.updated
          /\ goUpdateResults.goModUpdated
          /\ goUpdateResults.goModTidied = FALSE
          /\ goUpdateResults.error = "null"
          /\ updGoMod.go = LatestGoVersion

\* axios rewritten from "^0.21.1" in a repository with a lock whose
\* `npm install` failed, and go.mod rewritten before a failing tidy
C14_Witness ==
    /\ updCalls = 2
    /\ updInstall = "failed"
    /\ updTidy = "failed"
    /\ goUpdateResults.updated
    /\ updHasLock
    /\ updateResults.updated
    /\ "axios" \in DOMAIN updateResults.updatedDependencies
    /\ updFile.dependencies["axios"] = <<T("^"), V3(0, 21, 4)>>

-----------------------------------------------------------------------------
(* Claims about a failing update step *)

\* the approved map processNpmRepository is about to pass to updatePackages
CurApproved ==
    GetAutoUpdatePackages(CompareVersions(cur.installedVersions,
                                          cur.latestVersions))

\* a step in which processNpmRepository calls updatePackages and reading,
\* parsing or writing the manifest fails, and what the call returns
FailingUpdate(io) ==
    /\ io # "ok"
    /\ \E install \in BOOLEAN : NpmUpdate(io, install)
    /\ DOMAIN CurApproved # {}

FailingUpdateReturns(io) ==
    UpdatePackages(Repo.path, files[Repo.path], Repo.hasLock, CurApproved,
                   io, FALSE).result

\* C20: when the manifest cannot be read, parsed or written in the update
\* step, updatePackages returns updated = false with an error message and
\* an empty changed record; the repository gets a normal report entry with
\* autoUpdated = false, and the loop goes on to the next repository.
C20_UpdateFailureIsReported ==
    [][\A io \in IoOutcomes : FailingUpdate(io) =>
        LET ret == FailingUpdateReturns(io)
            rep == repositoryReports'[Len(repositoryReports')]
        IN  /\ ret.updated = FALSE
            /\ "error" \in DOMAIN ret
            /\ ret.updatedDependencies = EmptyMap
            /\ Len(repositoryReports') = Len(repositoryReports) + 1
            /\ rep.path = Repo.path
            /\ ~IsError(rep)
            /\ rep.autoUpdated = FALSE
            /\ "updateResults" \notin DOMAIN rep
            /\ rep.packageCount = Cardinality(DOMAIN cur.installedVersions)
            /\ rep.autoUpdateCount = Cardinality(DOMAIN CurApproved)
            /\ runPc' = "loop" /\ repoIdx' = repoIdx + 1
            /\ exitCode' = exitCode]_vars

\* the update of the first repository failed: its report lists axios as
\* auto-updatable with autoUpdated = false, its manifest is as it was, and
\* the second repository was processed after it
C20_Witness ==
    /\ Len(repositoryReports) = 2
    /\ repositoryReports[1].path = "/w/app"
    /\ ~IsError(repositoryReports[1])
    /\ repositoryReports[1].autoUpdateCount = 1
    /\ repositoryReports[1].autoUpdated = FALSE
    /\ files["/w/app"] = files0["/w/app"]
    /\ ~IsError(repositoryReports[2])

-----------------------------------------------------------------------------
(* Claims about the order of processing *)

\* processNpmRepository is between its awaits
InProcess == runPc \in {"npmFetch", "npmUpdate"}

\* nothing of a repository has been read, looked up, written or recorded
Untouched(path) ==
    /\ ReportIndexes(path) = {}
    /\ files[path] = files0[path]
    /\ locks[path] = locks0[path]
    /\ path \notin DOMAIN fetched
    /\ \A w \in 1..Len(writes) : writes[w] # ManifestFile(path)

\* C21: the repositories are processed one after another in discovery
\* order: while one is being processed every later one is untouched, every
\* earlier one has its report entry or its error entry recorded, and the
\* JSON report is written only after the last repository has finished.
C21_OneRepositoryAtATime ==
    /\ InProcess => repoIdx \in 1..Len(repositories)
    /\ \A i \in 1..Len(repositories) :
          LET path == repositories[i].path
          IN  /\ i > repoIdx => Untouched(path)
              /\ (i = repoIdx /\ InProcess) => ReportIndexes(path) = {}
              /\ i < repoIdx => Cardinality(ReportIndexes(path)) = 1
    /\ \A k, l \in 1..Len(repositoryReports) :
          k < l =>
             \E i, j \in 1..Len(repositories) :
                /\ i < j
                /\ repositories[i].path = repositoryReports[k].path
                /\ repositories[j].path = repositoryReports[l].path
    /\ (\E w \in 1..Len(writes) : writes[w] = ReportFile) =>
          /\ repoIdx = Len(repositories) + 1
          /\ runPc \in {"document", "exit"}

-----------------------------------------------------------------------------
(* Claims about the consolidated report *)

\* C23: the repositories list of the consolidated report has exactly one
\* entry per discovered repository, in discovery order, and
\* summary.repositoryCount is the number of discovered repositories, also
\* for a package-manifest repository that declares no dependencies.
C23_OneEntryPerRepository ==
    Consolidated =>
        /\ Len(consolidatedReport.repositories) = Len(repositories)
        /\ \A i \in 1..Len(consolidatedReport.repositories) :
              i <= Len(repositories) =>
                 consolidatedReport.repositories[i].path =
                    repositories[i].path
        /\ consolidatedReport.summary.repositoryCount = Len(repositories)

\* the manifest of a report's repository was written in this run and holds
\* the new version for a name
RewrittenFor(rep, n) ==
    /\ \E w \in 1..Len(writes) : writes[w] = ManifestFile(rep.path)
    /\ IF rep.type = "go"
       THEN files[rep.path].go = rep.autoUpdatePackages[n].to
       ELSE \E i \in 1..Len(Sections) :
               Declared(files[rep.path], Sections[i], n) =
                  Caret(rep.autoUpdatePackages[n].to)

\* C24: a dependency is in the auto-updated bucket of a repository report,
\* and counted in autoUpdateCount and in summary.totalAutoUpdated, only if
\* the manifest was rewritten for it in this run; the bucket of a repository
\* whose update step failed is empty.
C24_AutoBucketMeansRewritten ==
    /\ \A k \in 1..Len(repositoryReports) :
          LET rep == repositoryReports[k]
          IN  ~IsError(rep) =>
              /\ \A n \in DOMAIN rep.autoUpdatePackages : RewrittenFor(rep, n)
              /\ ~rep.autoUpdated =>
                    /\ rep.autoUpdatePackages = EmptyMap
                    /\ rep.autoUpdateCount = 0
    /\ (Consolidated /\ \A k \in 1..Len(repositoryReports) :
                           ~IsError(repositoryReports[k]))
       => consolidatedReport.summary.totalAutoUpdated =
             Cardinality({<<k, n>> \in (1..Len(repositoryReports))
                                       \X {"axios", "react", "go"} :
                 /\ n \in DOMAIN repositoryReports[k].autoUpdatePackages
                 /\ RewrittenFor(repositoryReports[k], n)})

-----------------------------------------------------------------------------
(* Claims about consecutive runs *)

\* C25: in a run that follows a run which reported updated = true for a
\* repository, with the registry unchanged, no dependency of that
\* repository is classified patch and its manifest is not written again,
\* with and without a lock and also when the lock regeneration of the
\* earlier run failed.
C25_SecondRunChangesNothing ==
    runs >= 2 =>
        \A k \in 1..Len(repositoryReports) :
            LET rep == repositoryReports[k]
            IN  (rep.path \in updatedBefore /\ ~IsError(rep)) =>
                /\ \A n \in DOMAIN ResultsOf(rep.path) :
                      ResultsOf(rep.path)[n].updateType # "patch"
                /\ rep.autoUpdateCount = 0
                /\ files[rep.path] = files0[rep.path]
                /\ \A w \in 1..Len(writes) :
                      writes[w] # ManifestFile(rep.path)

-----------------------------------------------------------------------------
(* Claims about the go ecosystem in a run *)

GoReports ==
    {k \in 1..Len(repositoryReports) :
        ~IsError(repositoryReports[k]) /\ repositoryReports[k].type = "go"}

-----------------------------------------------------------------------------
(* The frame of updatePackageJson *)

SectionSet == Range(Sections)

\* C27: a call of updatePackages that writes the manifest changes only
\* entries of approved names: the manifest keeps its fields, every field
\* that is not a dependency section keeps its value, every section keeps
\* its names (none added, none removed, so no approved name appears in a
\* section that did not declare it), and every entry whose name is not in
\* the approved map keeps its value.
C27_OnlyApprovedEntriesChange ==
    [][UpdatedCall =>
        /\ DOMAIN updFile' = DOMAIN updFile
        /\ \A f \in DOMAIN updFile \ SectionSet : updFile'[f] = updFile[f]
        /\ \A s \in DOMAIN updFile \cap SectionSet :
              /\ DOMAIN updFile'[s] = DOMAIN updFile[s]
              /\ \A n \in DOMAIN updFile[s] \ DOMAIN packagesToUpdate :
                    updFile'[s][n] = updFile[s][n]]_vars

-----------------------------------------------------------------------------
(* Claims about the documents *)

\* C28: when generateDocument has written all its documents, the combined
\* document and the documents of the entries of the report are at pairwise
\* distinct paths: the number of distinct files is 1 plus the number of
\* entries, and no entry's document has the path of the combined document
\* or of another entry's document.
C28_DocumentsAtDistinctPaths ==
    (runPc = "exit" /\ exitCode = 0) =>
        LET paths == DocumentPaths(consolidatedReport)
        IN  /\ IsSubSeq(paths, writes, Len(writes) - Len(paths) + 1)
            /\ Cardinality(Range(paths)) =
                  1 + Len(consolidatedReport.repositories)
            /\ \A i, j \in 1..Len(paths) : i # j => paths[i] # paths[j]

=============================================================================
